---- MODULE Spec2Model ----
(***************************************************************************)
(* Model of src/app.py, the farmer cocoa quota dashboard: the paginated    *)
(* reader load_data_batched and the module-level pipeline that joins the   *)
(* quota view with the traceability table, fills gaps, applies the sidebar *)
(* filters and renders.                                                    *)
(*                                                                         *)
(* Text values are sequences of one-character strings, so that strip,      *)
(* lower, sorted and str.contains are computed and not assumed.  A cell    *)
(* of a DataFrame is a tagged record: a number, a text or a missing value  *)
(* (None / NaN).  A DataFrame is its column set and its sequence of rows.  *)
(***************************************************************************)
EXTENDS Integers, Sequences, FiniteSets, TLC

\* ------------------------------------------------------------------ bounds

\* Largest number of rows of the quota view in the pipeline specification.
MaxQuotaRows == 2

\* Largest number of rows of the traceability table in the pipeline
\* specification.
MaxTraceRows == 2

\* Largest number of rows of a table read by load_data_batched.
MaxRows == 3

\* Largest page_size, and largest number of rows the server puts in a window.
MaxPageSize == 2

\* -------------------------------------------------------------------- text

Digits == <<"0", "1", "2", "3", "4", "5", "6", "7", "8", "9">>

UpperCase == <<"A", "B", "C", "D", "E", "F", "G", "H", "I", "J", "K", "L", "M",
               "N", "O", "P", "Q", "R", "S", "T", "U", "V", "W", "X", "Y", "Z">>

LowerCase == <<"a", "b", "c", "d", "e", "f", "g", "h", "i", "j", "k", "l", "m",
               "n", "o", "p", "q", "r", "s", "t", "u", "v", "w", "x", "y", "z">>

\* The characters of the model in code-point order.
Chars == <<" ", ".">> \o Digits \o UpperCase \o LowerCase

CharCode(c) == CHOOSE i \in 1..Len(Chars) : Chars[i] = c

IndexIn(seq, c) == CHOOSE i \in 1..Len(seq) : seq[i] = c

\* str.lower, one character.
LowerChar(c) ==
    IF \E i \in 1..Len(UpperCase) : UpperCase[i] = c
    THEN LowerCase[IndexIn(UpperCase, c)]
    ELSE c

\* str.lower
StrLower(s) == [i \in 1..Len(s) |-> LowerChar(s[i])]

RECURSIVE LStrip(_)
LStrip(s) == IF s # <<>> /\ Head(s) = " " THEN LStrip(Tail(s)) ELSE s

RECURSIVE RStrip(_)
RStrip(s) ==
    IF s # <<>> /\ s[Len(s)] = " " THEN RStrip(SubSeq(s, 1, Len(s) - 1)) ELSE s

\* str.strip
StrStrip(s) == RStrip(LStrip(s))

\* Python's order on str: lexicographic by code point.
RECURSIVE StrLess(_, _)
StrLess(a, b) ==
    IF b = <<>> THEN FALSE
    ELSE IF a = <<>> THEN TRUE
    ELSE IF Head(a) = Head(b) THEN StrLess(Tail(a), Tail(b))
    ELSE CharCode(Head(a)) < CharCode(Head(b))

\* sorted(...) of a collection without repetitions.
RECURSIVE Sorted(_)
Sorted(S) ==
    IF S = {} THEN <<>>
    ELSE LET m == CHOOSE x \in S : \A y \in S : x = y \/ StrLess(x, y)
         IN  <<m>> \o Sorted(S \ {m})

\* str(n) for a non-negative integer.
RECURSIVE IntToStr(_)
IntToStr(n) ==
    IF n < Len(Digits) THEN <<Digits[n + 1]>>
    ELSE IntToStr(n \div Len(Digits)) \o <<Digits[(n % Len(Digits)) + 1]>>

IsDigit(c) == \E i \in 1..Len(Digits) : Digits[i] = c

\* The value of a string of decimal digits.
RECURSIVE DigitsValue(_)
DigitsValue(s) ==
    IF s = <<>> THEN 0
    ELSE DigitsValue(SubSeq(s, 1, Len(s) - 1)) * Len(Digits)
         + (IndexIn(Digits, s[Len(s)]) - 1)

\* The pattern language of re.search restricted to the characters of the
\* model: "." matches any character, every other character matches itself.
MatchesAt(pat, s, i) ==
    /\ i + Len(pat) - 1 <= Len(s)
    /\ \A j \in 1..Len(pat) : pat[j] = "." \/ pat[j] = s[i + j - 1]

\* Series.str.contains(pat), regex=True by default.
StrContains(s, pat) == \E i \in 1..(Len(s) + 1) : MatchesAt(pat, s, i)

All == <<"A", "l", "l">>

Unknown == <<"U", "n", "k", "n", "o", "w", "n">>

NoneText == <<"N", "o", "n", "e">>

\* ------------------------------------------------------------------- cells

Null == [k |-> "null", n |-> 0, s |-> <<>>]

Num(n) == [k |-> "num", n |-> n, s |-> <<>>]

Str(s) == [k |-> "str", n |-> 0, s |-> s]

IsNull(c) == c.k = "null"

\* Series.astype(str), one cell.
AsStr(c) ==
    IF c.k = "str" THEN c.s
    ELSE IF c.k = "num" THEN IntToStr(c.n)
    ELSE NoneText

\* Mutant of ToNumeric: errors='ignore', an unparsable value is kept as it is.
ToNumericIgnore(c) ==
    IF c.k = "str" /\ c.s # <<>> /\ \A i \in 1..Len(c.s) : IsDigit(c.s[i])
    THEN Num(DigitsValue(c.s))
    ELSE c

\* pd.to_numeric(..., errors='coerce'), one cell: numbers stay, digit strings
\* parse, everything else becomes NaN.
ToNumeric(c) ==
    IF c.k = "num" THEN c
    ELSE IF c.k = "str" /\ c.s # <<>> /\ \A i \in 1..Len(c.s) : IsDigit(c.s[i])
         THEN Num(DigitsValue(c.s))
    ELSE Null

\* Series.fillna(v), one cell.
FillNa(c, v) == IF IsNull(c) THEN v ELSE c

\* Series.str.strip().str.lower() after astype(str), one cell.
NormalizeId(c) == Str(StrLower(StrStrip(AsStr(c))))

\* ------------------------------------------------------------- data frames

\* pd.DataFrame()
EmptyFrame == [columns |-> {}, rows |-> <<>>]

\* pd.DataFrame(all_rows): the columns are the keys of the row dicts.
DataFrame(all_rows) ==
    IF all_rows = <<>> THEN EmptyFrame
    ELSE [columns |-> DOMAIN all_rows[1], rows |-> all_rows]

\* DataFrame.empty
IsEmpty(df) == df.rows = <<>> \/ df.columns = {}

\* df[col], a Series: the cells of a column in row order.
Column(df, col) == [i \in 1..Len(df.rows) |-> df.rows[i][col]]

\* df[col] = series, for a column the frame has.
AssignColumn(df, col, series) ==
    [df EXCEPT !.rows =
        [i \in 1..Len(df.rows) |-> [df.rows[i] EXCEPT ![col] = series[i]]]]

\* df[col] = v, adding the column when it is absent.
SetColumn(df, col, v) ==
    [columns |-> df.columns \cup {col},
     rows |-> [i \in 1..Len(df.rows) |->
                 [c \in df.columns \cup {col} |->
                     IF c = col THEN v ELSE df.rows[i][c]]]]

RECURSIVE PickFrom(_, _, _)
\* The elements of seq at the positions of I, from position i on, in order.
PickFrom(seq, I, i) ==
    IF i > Len(seq) THEN <<>>
    ELSE (IF i \in I THEN <<seq[i]>> ELSE <<>>) \o PickFrom(seq, I, i + 1)

\* df[mask], mask a Series of booleans.
FilterRows(df, mask) ==
    [df EXCEPT !.rows = PickFrom(df.rows, {i \in 1..Len(mask) : mask[i]}, 1)]

\* The values of a column, as a set.
ColumnValues(df, col) == {df.rows[i][col] : i \in 1..Len(df.rows)}

\* ------------------------------------------------------------ source data

OK == <<"O", "K">>

quota_view_name == "quota_view"

traceability_table_name == "traceability"

\* The columns selected from quota_view.
QuotaCols ==
    {"farmer_id", "max_quota_kg", "total_net_weight_kg", "quota_used_pct",
     "quota_status"}

\* The columns selected from traceability.
TraceCols ==
    {"farmer_id", "export_lot", "exporter", "cooperative_name", "certification"}

\* The categorical columns aggregated per farmer.
CatCols == <<"export_lot", "exporter", "cooperative_name", "certification">>

\* The columns coerced to numbers, in the order the code coerces them.
NumCols == <<"max_quota_kg", "total_net_weight_kg", "quota_used_pct">>

\* The columns filled with 'Unknown', in the order the code fills them.
FillCols ==
    <<"quota_status", "export_lot", "exporter", "cooperative_name",
      "certification">>

Range(seq) == {seq[i] : i \in 1..Len(seq)}

\* Rows the quota view can hold: an un-normalised key with a numeric string,
\* and a row with an unparsable number and missing values.  A table can hold
\* a row twice.
QuotaRowSet ==
    { [farmer_id |-> Str(<<" ", "F", "1", " ">>), max_quota_kg |-> Num(2),
       total_net_weight_kg |-> Str(<<"2">>), quota_used_pct |-> Num(1),
       quota_status |-> Str(OK)],
      [farmer_id |-> Str(<<"f", "2">>), max_quota_kg |-> Str(<<"x">>),
       total_net_weight_kg |-> Null, quota_used_pct |-> Num(3),
       quota_status |-> Null] }

\* Rows the traceability table can hold: two spellings of farmer f1 with
\* different exporters, and a farmer whose exporter is named "All".
TraceRowSet ==
    { [farmer_id |-> Str(<<"f", "1">>), export_lot |-> Str(<<"L", "1">>),
       exporter |-> Str(<<"E", "2">>), cooperative_name |-> Str(<<"C", "1">>),
       certification |-> Str(<<"K", "1">>)],
      [farmer_id |-> Str(<<" ", "F", "1">>), export_lot |-> Null,
       exporter |-> Str(<<"E", "1">>), cooperative_name |-> Str(<<"C", "1">>),
       certification |-> Null],
      [farmer_id |-> Str(<<"F", "2">>), export_lot |-> Null,
       exporter |-> Str(All), cooperative_name |-> Null,
       certification |-> Null] }

\* A column the source does not deliver: none, or one column of one table.
SchemaDrops ==
    { <<"none", "none">>,
      <<quota_view_name, "max_quota_kg">>,
      <<quota_view_name, "quota_status">>,
      <<quota_view_name, "farmer_id">>,
      <<traceability_table_name, "exporter">>,
      <<traceability_table_name, "farmer_id">> }

Restrict(row, cols) == [c \in cols |-> row[c]]

SeqsUpTo(S, n) == UNION {[1..m -> S] : m \in 0..n}

\* The rows of a table as the store returns them under a schema drop.
Delivered(rows, table, cols, drop) ==
    [i \in 1..Len(rows) |->
        Restrict(rows[i], IF drop[1] = table THEN cols \ {drop[2]} ELSE cols)]

\* Texts the user can type in the farmer id search box.
SearchTexts == { <<>>, <<"F", "1">>, <<".">> }

\* ------------------------------------------------------------------- state

VARIABLES
    supabase,                 \* the client is initialised
    quota_view,               \* rows of the remote quota view
    traceability,             \* rows of the remote traceability table
    df_quota,
    df_traceability,
    df_combined,
    filtered_df,
    selected_exporters,
    selected_quota_statuses,
    selected_cooperatives,
    selected_certifications,
    farmer_id_search,
    min_quota_pct,
    max_quota_pct,
    session_state,            \* what each sidebar widget returned
    total_farmers,
    average_quota_used_pct,   \* a fraction [num, den]
    total_max_quota_kg,
    total_net_weight_kg,
    notices,                  \* st.error / st.warning messages shown
    pc                        \* position in the script

pipeVars ==
    <<supabase, quota_view, traceability, df_quota, df_traceability,
      df_combined, filtered_df, selected_exporters, selected_quota_statuses,
      selected_cooperatives, selected_certifications, farmer_id_search,
      min_quota_pct, max_quota_pct, session_state, total_farmers,
      average_quota_used_pct, total_max_quota_kg, total_net_weight_kg,
      notices, pc>>

widgetVars ==
    <<selected_exporters, selected_quota_statuses, selected_cooperatives,
      selected_certifications, farmer_id_search, min_quota_pct, max_quota_pct,
      session_state>>

sourceVars == <<supabase, quota_view, traceability>>

metricVars ==
    <<total_farmers, average_quota_used_pct, total_max_quota_kg,
      total_net_weight_kg>>

\* --------------------------------------------------------------- reconcile

\* Series.mode(): the most frequent non-missing values, sorted ascending.
SeriesMode(x) ==
    LET vals == {x[i].s : i \in {j \in 1..Len(x) : ~IsNull(x[j])}}
        Count(v) == Cardinality({i \in 1..Len(x) : ~IsNull(x[i]) /\ x[i].s = v})
        top == {v \in vals : \A w \in vals : Count(w) <= Count(v)}
    IN  Sorted(top)

\* lambda x: x.mode().iloc[0] if not x.mode().empty else x.iloc[0]
AggPick(x) == IF SeriesMode(x) # <<>> THEN Str(SeriesMode(x)[1]) ELSE x[1]

\* df['farmer_id'] = df['farmer_id'].astype(str).str.strip().str.lower()
NormalizeFarmerId(df) ==
    AssignColumn(df, "farmer_id",
        [i \in 1..Len(df.rows) |-> NormalizeId(Column(df, "farmer_id")[i])])

\* df_traceability.groupby('farmer_id').agg({...}).reset_index(): one row per
\* key, keys in sorted order.
GroupByAgg(df) ==
    LET keys == Sorted({df.rows[i]["farmer_id"].s : i \in 1..Len(df.rows)})
        Group(key) ==
            FilterRows(df, [i \in 1..Len(df.rows) |->
                               df.rows[i]["farmer_id"].s = key])
    IN  [columns |-> {"farmer_id"} \cup Range(CatCols),
         rows |-> [i \in 1..Len(keys) |->
                     [c \in {"farmer_id"} \cup Range(CatCols) |->
                         IF c = "farmer_id" THEN Str(keys[i])
                         ELSE AggPick(Column(Group(keys[i]), c))]]]

\* The rows a left join produces for the left rows lrows, in left order: a
\* left row joined with each right row of equal key, or with missing values.
RECURSIVE MergeRows(_, _, _)
MergeRows(lrows, right, cols) ==
    IF lrows = <<>> THEN <<>>
    ELSE LET l == Head(lrows)
             matches == SelectSeq(right.rows,
                                  LAMBDA r : r["farmer_id"] = l["farmer_id"])
             Joined(r) == [c \in cols |-> IF c \in DOMAIN l THEN l[c] ELSE r[c]]
             Alone == [c \in cols |-> IF c \in DOMAIN l THEN l[c] ELSE Null]
         IN  (IF matches = <<>> THEN <<Alone>>
              ELSE [i \in 1..Len(matches) |-> Joined(matches[i])])
             \o MergeRows(Tail(lrows), right, cols)

\* pd.merge(left, right, on='farmer_id', how='left')
MergeLeft(left, right) ==
    [columns |-> left.columns \cup right.columns,
     rows |-> MergeRows(left.rows, right, left.columns \cup right.columns)]

\* The first column of cols, in order, that df lacks; "" when it has them all.
RECURSIVE FirstAbsent(_, _)
FirstAbsent(cols, df) ==
    IF cols = <<>> THEN ""
    ELSE IF Head(cols) \notin df.columns THEN Head(cols)
    ELSE FirstAbsent(Tail(cols), df)

\* The branch taken when both frames hold rows: normalise, aggregate, join.
\* raised tells that a KeyError left the block; trace and quota are the two
\* frames as the block left them.
JoinBranch(dq, dt) ==
    IF "farmer_id" \notin dt.columns
    THEN [raised |-> TRUE, combined |-> EmptyFrame, quota |-> dq, trace |-> dt]
    ELSE IF FirstAbsent(CatCols, dt) # ""
    THEN [raised |-> TRUE, combined |-> EmptyFrame, quota |-> dq,
          trace |-> NormalizeFarmerId(dt)]
    ELSE IF "farmer_id" \notin dq.columns
    THEN [raised |-> TRUE, combined |-> EmptyFrame, quota |-> dq,
          trace |-> NormalizeFarmerId(dt)]
    ELSE [raised |-> FALSE,
          combined |-> MergeLeft(NormalizeFarmerId(GroupByAgg(NormalizeFarmerId(dt))),
                                 NormalizeFarmerId(dq)),
          quota |-> NormalizeFarmerId(dq),
          trace |-> NormalizeFarmerId(dt)]

\* The branch taken when only the quota frame holds rows: the quota rows
\* with the four categorical columns set to None.
RECURSIVE AddNoneColumns(_, _)
AddNoneColumns(df, cols) ==
    IF cols = <<>> THEN df
    ELSE AddNoneColumns(SetColumn(df, Head(cols), Null), Tail(cols))

QuotaOnlyBranch(dq) == AddNoneColumns(dq, CatCols)

\* --------------------------------------------------------------- gap filling

\* pd.to_numeric on the numeric columns in order, stopping at an absent one.
RECURSIVE CoerceNumeric(_, _)
CoerceNumeric(df, cols) ==
    IF cols = <<>> \/ Head(cols) \notin df.columns THEN df
    ELSE CoerceNumeric(
             AssignColumn(df, Head(cols),
                 [i \in 1..Len(df.rows) |-> ToNumeric(Column(df, Head(cols))[i])]),
             Tail(cols))

FillZero(c) == FillNa(c, Num(0))

\* Mutant of FillUnknown: the sentinel is spelled in lower case.
FillUnknownLowerCase(c) == FillNa(c, Str(StrLower(Unknown)))

FillUnknown(c) == FillNa(c, Str(Unknown))

\* Mutant of FillNumeric: quota_used_pct is not filled.
FillNumericNoPct(df, cols) ==
    [df EXCEPT !.rows =
        [i \in 1..Len(df.rows) |->
            [df.rows[i] EXCEPT
                !["max_quota_kg"] = FillZero(@),
                !["total_net_weight_kg"] = FillZero(@)]]]

\* fillna(0) on the numeric columns.
RECURSIVE FillNumeric(_, _)
FillNumeric(df, cols) ==
    IF cols = <<>> THEN df
    ELSE FillNumeric(
             AssignColumn(df, Head(cols),
                 [i \in 1..Len(df.rows) |-> FillZero(Column(df, Head(cols))[i])]),
             Tail(cols))

\* fillna('Unknown') on the columns that exist, the column added as
\* 'Unknown' when it does not.
RECURSIVE FillCategorical(_, _)
FillCategorical(df, cols) ==
    IF cols = <<>> THEN df
    ELSE FillCategorical(
             IF Head(cols) \in df.columns
             THEN AssignColumn(df, Head(cols),
                      [i \in 1..Len(df.rows) |->
                          FillUnknown(Column(df, Head(cols))[i])])
             ELSE SetColumn(df, Head(cols), Str(Unknown)),
             Tail(cols))

\* The warnings of the fill loop for absent columns.
FillWarnings(df) ==
    {"column not found: " \o FillCols[i] :
        i \in {j \in 1..Len(FillCols) : FillCols[j] \notin df.columns}}

\* ----------------------------------------------------------------- filters

\* ['All'] + sorted(df[col].unique().tolist())
Options(df, col) == <<All>> \o Sorted({v.s : v \in ColumnValues(df, col)})

\* What st.multiselect can return: the options the user left selected.
Selections(options) ==
    {PickFrom(options, I, 1) : I \in SUBSET (1..Len(options))}

\* The handling of the pseudo-option 'All' after a multiselect.
CollapseAll(selected, options) ==
    IF All \in Range(selected) /\ Len(selected) > 1
    THEN SelectSeq(selected, LAMBDA opt : opt # All)
    ELSE IF All \in Range(selected) /\ Len(selected) = 1 /\ All \in Range(options)
    THEN Sorted(Range(options) \ {All})
    ELSE IF All \in Range(selected) /\ Len(selected) = 1
    THEN options
    ELSE selected

\* Series.isin(selected), one cell.
IsIn(c, selected) == c.s \in Range(selected)

SetMin(S) == CHOOSE x \in S : \A y \in S : x <= y

SetMax(S) == CHOOSE x \in S : \A y \in S : y <= x

\* The values of quota_used_pct in df.
PctValues(df) == {v.n : v \in ColumnValues(df, "quota_used_pct")}

\* The mask of the six column conditions combined with &.
KeepRow(r, exporters, statuses, cooperatives, certifications, lo, hi) ==
    /\ IsIn(r["exporter"], exporters)
    /\ IsIn(r["quota_status"], statuses)
    /\ IsIn(r["cooperative_name"], cooperatives)
    /\ IsIn(r["certification"], certifications)
    /\ r["quota_used_pct"].n >= lo
    /\ r["quota_used_pct"].n <= hi

\* The farmer id text filter, one row.
KeepSearch(r, search) == StrContains(StrLower(AsStr(r["farmer_id"])), search)

\* No widget has been drawn.
NoWidgets ==
    [exporter |-> <<>>, quota_status |-> <<>>, cooperative_name |-> <<>>,
     certification |-> <<>>, farmer_id |-> <<>>, quota_used_pct |-> <<>>]

\* The sidebar widgets.
Widgets ==
    {"exporter", "quota_status", "cooperative_name", "certification",
     "farmer_id", "quota_used_pct"}

\* The widgets the user moves away from their default in one run of the
\* script: none, or one of them.
Touches == {{}} \cup {{w} : w \in Widgets}

\* What a multiselect returns: its default when untouched, any other
\* selection when touched.
Selected(options, widget, touched) ==
    IF widget \in touched THEN Selections(options) \ {options} ELSE {options}

\* What the text input returns.
Typed(touched) ==
    IF "farmer_id" \in touched THEN SearchTexts \ {<<>>} ELSE {<<>>}

\* What the range slider returns, between the least and the greatest
\* quota_used_pct of the data.
Slid(df, touched) ==
    LET vals == PctValues(df)
        full == <<SetMin(vals), SetMax(vals)>>
    IN  IF "quota_used_pct" \in touched
        THEN {p \in vals \X vals : p[1] <= p[2] /\ p # full}
        ELSE {full}

\* -------------------------------------------------------------- key metrics

\* Sum of the numbers n[i] for i in I.
RECURSIVE SumOver(_, _)
SumOver(n, I) ==
    IF I = {} THEN 0
    ELSE LET i == CHOOSE j \in I : TRUE IN n[i] + SumOver(n, I \ {i})

\* The positions of x holding a number.
Present(x) == {i \in 1..Len(x) : x[i].k = "num"}

\* Series.nunique(): the number of distinct non-missing values.
SeriesNunique(x) == Cardinality({x[i] : i \in {j \in 1..Len(x) : ~IsNull(x[j])}})

\* Series.sum(): missing values are skipped, the sum of nothing is 0.
SeriesSum(x) == SumOver([i \in 1..Len(x) |-> x[i].n], Present(x))

\* Series.mean() as the fraction num / den; den = 0 is NaN.
SeriesMean(x) == [num |-> SeriesSum(x), den |-> Cardinality(Present(x))]

\* The literal 0 of the else branches, as a fraction.
Zero == [num |-> 0, den |-> 1]

\* The guard of every metric: the column exists and the frame holds rows.
HasData(df, col) == col \in df.columns /\ ~IsEmpty(df)

\* average_quota_used_pct without the guard.
AverageUnguarded(df) == SeriesMean(Column(df, "quota_used_pct"))

\* average_quota_used_pct
AverageQuotaUsedPct(df) ==
    IF HasData(df, "quota_used_pct")
    THEN SeriesMean(Column(df, "quota_used_pct"))
    ELSE Zero

\* total_farmers
TotalFarmers(df) ==
    IF HasData(df, "farmer_id") THEN SeriesNunique(Column(df, "farmer_id")) ELSE 0

\* total_max_quota_kg and total_net_weight_kg
TotalOf(df, col) == IF HasData(df, col) THEN SeriesSum(Column(df, col)) ELSE 0

\* ------------------------------------------------------- load_data_batched

VARIABLES
    remote_size,              \* table name -> number of rows the store holds
    page_size,
    max_rows,                 \* rows the store puts in one window at most
    calls,                    \* the tables still to be read, in call order
    offset,
    all_rows,
    requests,                 \* the windows requested so far, with the answers
    returned,                 \* table name -> what load_data_batched returned
    errors                    \* tables for which st.error was shown

fetchVars ==
    <<remote_size, page_size, max_rows, calls, offset, all_rows, requests,
      returned, errors>>

\* Row i of a remote table.
RemoteRow(table, i) ==
    IF table = quota_view_name
    THEN [farmer_id |-> Num(i), max_quota_kg |-> Num(i)]
    ELSE [farmer_id |-> Num(i), exporter |-> Null]

\* The rows of a remote table in source order.
RemoteRows(table, n) == [i \in 1..n |-> RemoteRow(table, i)]

Min(a, b) == IF a <= b THEN a ELSE b

\* What the store answers to .range(lo, hi): the rows at positions lo..hi
\* (counted from 0) that exist, cut to the store's window limit.
Window(rows, lo, hi, limit) ==
    SubSeq(rows, lo + 1, Min(Min(hi + 1, Len(rows)), lo + limit))

\* The window the loop asks for at an offset.
RangeOf(off, size) == <<off, off + size - 1>>

\* The offset of the next window after a non-empty one.
NextOffset(off, size, rows) == off + size

\* Mutant of OnNone: None ends the pagination like an empty window.
OnNoneAsEnd(rows) == DataFrame(rows)

\* What the function returns when a window's data is None.
OnNone(rows) == EmptyFrame

\* What the function returns when a request raises.
OnException(rows) == EmptyFrame

\* What the function returns after an empty window ends the loop.
OnBreak(rows) == DataFrame(rows)

\* The two calls of the pipeline, in order.
FetchCalls == <<quota_view_name, traceability_table_name>>

\* The state when the first load_data_batched call starts.
FetchInit ==
    /\ remote_size \in [Range(FetchCalls) -> 0..MaxRows]
    /\ page_size \in 1..MaxPageSize
    /\ max_rows \in 1..MaxPageSize
    /\ calls = FetchCalls
    /\ offset = 0
    /\ all_rows = <<>>
    /\ requests = <<>>
    /\ returned = <<>>
    /\ errors = {}

\* The fetch variables while the pipeline specification runs.
FetchIdle ==
    /\ remote_size = [t \in Range(FetchCalls) |-> 0]
    /\ page_size = 1
    /\ max_rows = 1
    /\ calls = <<>>
    /\ offset = 0
    /\ all_rows = <<>>
    /\ requests = <<>>
    /\ returned = <<>>
    /\ errors = {}

\* The request of the current iteration and the store's answer to it.
CurrentWindow ==
    Window(RemoteRows(Head(calls), remote_size[Head(calls)]),
           RangeOf(offset, page_size)[1], RangeOf(offset, page_size)[2], max_rows)

Logged(answer) ==
    Append(requests, [table |-> Head(calls), range |-> RangeOf(offset, page_size),
                      answer |-> answer])

\* return: the call ends and the next call starts with fresh locals.
Return(frame) ==
    /\ returned' = returned @@ (Head(calls) :> frame)
    /\ calls' = Tail(calls)
    /\ offset' = 0
    /\ all_rows' = <<>>

\* A window with rows: extend all_rows and advance the offset.
WindowRows ==
    /\ calls # <<>>
    /\ CurrentWindow # <<>>
    /\ requests' = Logged("rows")
    /\ all_rows' = all_rows \o CurrentWindow
    /\ offset' = NextOffset(offset, page_size, CurrentWindow)
    /\ UNCHANGED <<remote_size, page_size, max_rows, calls, returned, errors>>
    /\ UNCHANGED pipeVars

\* An empty window: break and return the rows collected.
WindowEmpty ==
    /\ calls # <<>>
    /\ CurrentWindow = <<>>
    /\ requests' = Logged("empty")
    /\ Return(OnBreak(all_rows))
    /\ UNCHANGED <<remote_size, page_size, max_rows, errors>>
    /\ UNCHANGED pipeVars

\* result.data is None: report and return an empty frame.
WindowNone ==
    /\ calls # <<>>
    /\ requests' = Logged("none")
    /\ errors' = errors \cup {Head(calls)}
    /\ Return(OnNone(all_rows))
    /\ UNCHANGED <<remote_size, page_size, max_rows>>
    /\ UNCHANGED pipeVars

\* The request raises: report and return an empty frame.
WindowRaise ==
    /\ calls # <<>>
    /\ requests' = Logged("raise")
    /\ errors' = errors \cup {Head(calls)}
    /\ Return(OnException(all_rows))
    /\ UNCHANGED <<remote_size, page_size, max_rows>>
    /\ UNCHANGED pipeVars

\* ------------------------------------------------------------ the pipeline

FetchError(table) == "fetch failed: " \o table

NoTraceWarning == "Traceability DataFrame is empty after fetching"

NoDataWarning == "No data found after fetching"

ProcessingError == "An error occurred during data fetching or processing"

NoClientError == "Supabase client not initialized. Cannot fetch data."

NoMatchWarning == "No data matches the selected filters."

\* The state when the script starts: the globals of lines 75-88, and a remote
\* store holding some rows.
Init ==
    /\ supabase \in BOOLEAN
    /\ \E q \in SeqsUpTo(QuotaRowSet, MaxQuotaRows),
          t \in SeqsUpTo(TraceRowSet, MaxTraceRows),
          drop \in SchemaDrops :
          /\ quota_view = Delivered(q, quota_view_name, QuotaCols, drop)
          /\ traceability = Delivered(t, traceability_table_name, TraceCols, drop)
    /\ df_quota = EmptyFrame
    /\ df_traceability = EmptyFrame
    /\ df_combined = EmptyFrame
    /\ filtered_df = EmptyFrame
    /\ selected_exporters = <<>>
    /\ selected_quota_statuses = <<>>
    /\ selected_cooperatives = <<>>
    /\ selected_certifications = <<>>
    /\ farmer_id_search = <<>>
    /\ min_quota_pct = 0
    /\ max_quota_pct = 0
    /\ session_state = NoWidgets
    /\ total_farmers = 0
    /\ average_quota_used_pct = Zero
    /\ total_max_quota_kg = 0
    /\ total_net_weight_kg = 0
    /\ notices = {}
    /\ pc = "start"
    /\ FetchIdle

\* The except clause of the pipeline: report, and leave filtered_df empty.
ExceptHandler ==
    /\ notices' = notices \cup {ProcessingError}
    /\ filtered_df' = EmptyFrame
    /\ pc' = "filtered"

\* The two load_data_batched calls: each returns the table's rows, or an
\* empty frame after reporting a failed fetch.
FetchData ==
    /\ pc = "start"
    /\ supabase
    /\ \E okq \in BOOLEAN, okt \in BOOLEAN :
          /\ df_quota' = IF okq THEN DataFrame(quota_view) ELSE EmptyFrame
          /\ df_traceability' =
                 IF okt THEN DataFrame(traceability) ELSE EmptyFrame
          /\ notices' = notices
                 \cup (IF okq THEN {} ELSE {FetchError(quota_view_name)})
                 \cup (IF okt THEN {} ELSE {FetchError(traceability_table_name)})
    /\ pc' = "fetched"
    /\ UNCHANGED <<sourceVars, df_combined, filtered_df, widgetVars, metricVars,
                   fetchVars>>

\* The else branch of `if supabase`.
NoClient ==
    /\ pc = "start"
    /\ ~supabase
    /\ notices' = notices \cup {NoClientError}
    /\ filtered_df' = EmptyFrame
    /\ pc' = "filtered"
    /\ UNCHANGED <<sourceVars, df_quota, df_traceability, df_combined, widgetVars,
                   metricVars,
                   fetchVars>>

\* The join block: both frames hold rows, only the quota frame does, or the
\* quota frame is empty.
Reconcile ==
    /\ pc = "fetched"
    /\ IF ~IsEmpty(df_quota) /\ ~IsEmpty(df_traceability)
       THEN LET res == JoinBranch(df_quota, df_traceability)
            IN  /\ df_quota' = res.quota
                /\ df_traceability' = res.trace
                /\ df_combined' = res.combined
                /\ IF res.raised
                   THEN ExceptHandler
                   ELSE /\ pc' = "reconciled"
                        /\ UNCHANGED <<notices, filtered_df>>
       ELSE IF ~IsEmpty(df_quota)
       THEN /\ df_combined' = QuotaOnlyBranch(df_quota)
            /\ notices' = notices \cup {NoTraceWarning}
            /\ pc' = "reconciled"
            /\ UNCHANGED <<df_quota, df_traceability, filtered_df>>
       ELSE /\ df_combined' = EmptyFrame
            /\ notices' = notices \cup {NoDataWarning}
            /\ pc' = "reconciled"
            /\ UNCHANGED <<df_quota, df_traceability, filtered_df>>
    /\ UNCHANGED <<sourceVars, widgetVars, metricVars,
                   fetchVars>>

\* `if not df_combined.empty` is false: nothing is processed or filtered.
SkipEmpty ==
    /\ pc = "reconciled"
    /\ IsEmpty(df_combined)
    /\ pc' = "filtered"
    /\ UNCHANGED <<sourceVars, df_quota, df_traceability, df_combined,
                   filtered_df, widgetVars, notices, metricVars,
                   fetchVars>>

\* Numeric coercion and gap filling of a non-empty df_combined.  A numeric
\* column the frame lacks raises KeyError after the columns before it were
\* coerced.
GapFill ==
    /\ pc = "reconciled"
    /\ ~IsEmpty(df_combined)
    /\ IF FirstAbsent(NumCols, df_combined) # ""
       THEN /\ df_combined' = CoerceNumeric(df_combined, NumCols)
            /\ ExceptHandler
       ELSE /\ df_combined' =
                   FillCategorical(
                       FillNumeric(CoerceNumeric(df_combined, NumCols), NumCols),
                       FillCols)
            /\ notices' = notices \cup FillWarnings(df_combined)
            /\ pc' = "filled"
            /\ UNCHANGED filtered_df
    /\ UNCHANGED <<sourceVars, df_quota, df_traceability, widgetVars, metricVars,
                   fetchVars>>

\* The sidebar widgets and the filter block.  The text filter reads
\* farmer_id and raises KeyError when the frame lacks it.
ApplyFilters ==
    /\ pc = "filled"
    /\ \E touched \in Touches :
       \E se \in Selected(Options(df_combined, "exporter"), "exporter", touched),
          ss \in Selected(Options(df_combined, "quota_status"), "quota_status", touched),
          sc \in Selected(Options(df_combined, "cooperative_name"), "cooperative_name", touched),
          sk \in Selected(Options(df_combined, "certification"), "certification", touched),
          txt \in Typed(touched),
          rng \in Slid(df_combined, touched) :
          LET exporters == CollapseAll(se, Options(df_combined, "exporter"))
              statuses == CollapseAll(ss, Options(df_combined, "quota_status"))
              cooperatives == CollapseAll(sc, Options(df_combined, "cooperative_name"))
              certifications == CollapseAll(sk, Options(df_combined, "certification"))
              search == StrLower(txt)
              masked == FilterRows(df_combined,
                            [i \in 1..Len(df_combined.rows) |->
                                KeepRow(df_combined.rows[i], exporters, statuses,
                                        cooperatives, certifications, rng[1], rng[2])])
          IN  /\ session_state' =
                     [exporter |-> se, quota_status |-> ss, cooperative_name |-> sc,
                      certification |-> sk, farmer_id |-> txt, quota_used_pct |-> rng]
              /\ selected_exporters' = exporters
              /\ selected_quota_statuses' = statuses
              /\ selected_cooperatives' = cooperatives
              /\ selected_certifications' = certifications
              /\ farmer_id_search' = search
              /\ min_quota_pct' = rng[1]
              /\ max_quota_pct' = rng[2]
              /\ IF search = <<>>
                 THEN /\ filtered_df' = masked
                      /\ pc' = "filtered"
                      /\ UNCHANGED notices
                 ELSE IF "farmer_id" \notin masked.columns
                 THEN ExceptHandler
                 ELSE /\ filtered_df' =
                             FilterRows(masked,
                                 [i \in 1..Len(masked.rows) |->
                                     KeepSearch(masked.rows[i], search)])
                      /\ pc' = "filtered"
                      /\ UNCHANGED notices
    /\ UNCHANGED <<sourceVars, df_quota, df_traceability, df_combined, metricVars,
                   fetchVars>>

\* The warning shown when the filters left nothing, then the key metrics.
Render ==
    /\ pc = "filtered"
    /\ notices' =
           IF IsEmpty(filtered_df) /\ supabase /\ ~IsEmpty(df_combined)
           THEN notices \cup {NoMatchWarning}
           ELSE notices
    /\ total_farmers' = TotalFarmers(filtered_df)
    /\ average_quota_used_pct' = AverageQuotaUsedPct(filtered_df)
    /\ total_max_quota_kg' = TotalOf(filtered_df, "max_quota_kg")
    /\ total_net_weight_kg' = TotalOf(filtered_df, "total_net_weight_kg")
    /\ pc' = "done"
    /\ UNCHANGED <<sourceVars, df_quota, df_traceability, df_combined,
                   filtered_df, widgetVars, fetchVars>>

Next ==
    \/ FetchData
    \/ NoClient
    \/ Reconcile
    \/ SkipEmpty
    \/ GapFill
    \/ ApplyFilters
    \/ Render

vars == <<pipeVars, fetchVars>>

Spec == Init /\ [][Next]_vars

\* The pipeline variables while the reader specification runs.
PipeIdle ==
    /\ supabase = TRUE
    /\ quota_view = <<>>
    /\ traceability = <<>>
    /\ df_quota = EmptyFrame
    /\ df_traceability = EmptyFrame
    /\ df_combined = EmptyFrame
    /\ filtered_df = EmptyFrame
    /\ selected_exporters = <<>>
    /\ selected_quota_statuses = <<>>
    /\ selected_cooperatives = <<>>
    /\ selected_certifications = <<>>
    /\ farmer_id_search = <<>>
    /\ min_quota_pct = 0
    /\ max_quota_pct = 0
    /\ session_state = NoWidgets
    /\ total_farmers = 0
    /\ average_quota_used_pct = Zero
    /\ total_max_quota_kg = 0
    /\ total_net_weight_kg = 0
    /\ notices = {}
    /\ pc = "start"

InitFetch == FetchInit /\ PipeIdle

NextFetch ==
    \/ WindowRows
    \/ WindowEmpty
    \/ WindowNone
    \/ WindowRaise

\* The two load_data_batched calls of one run, window by window.
SpecFetch == InitFetch /\ [][NextFetch]_vars

\* ------------------------------------------------------ claims: vocabulary

\* Neither load_data_batched call reported a failure.
NoFetchError ==
    /\ FetchError(quota_view_name) \notin notices
    /\ FetchError(traceability_table_name) \notin notices

\* The store delivers every selected column of both tables.
SchemaComplete ==
    /\ \A i \in 1..Len(quota_view) : DOMAIN quota_view[i] = QuotaCols
    /\ \A i \in 1..Len(traceability) : DOMAIN traceability[i] = TraceCols

\* The script ran to its end and the except clause was not entered.
RanClean == pc = "done" /\ supabase /\ ProcessingError \notin notices

\* df_combined is a reconciled table: gap filling completed on a non-empty
\* frame (a frame that lacks a numeric column never gets that far).
GapFilled ==
    /\ pc \in {"filled", "filtered", "done"}
    /\ ~IsEmpty(df_combined)
    /\ Range(NumCols) \subseteq df_combined.columns

\* The trimmed, lower-cased form of a key.
Normalized(s) == StrLower(StrStrip(s))

\* The normalised farmer ids of the rows of a table.
SourceIds(rows) ==
    {Normalized(rows[i]["farmer_id"].s) : i \in 1..Len(rows)}

\* The number a source cell stands for: itself, the value of a digit string,
\* and 0 for a missing or unparsable value.
ExpectedNumber(c) ==
    IF c.k = "num" THEN c.n
    ELSE IF c.k = "str" /\ c.s # <<>> /\ \A i \in 1..Len(c.s) : c.s[i] \in Range(Digits)
         THEN DigitsValue(c.s)
    ELSE 0

\* The text a source cell stands for: itself, and "Unknown" when missing.
ExpectedText(c) == IF c.k = "str" THEN c.s ELSE Unknown

\* The quota rows of a farmer, in source order.
QuotaRowsOf(f) ==
    SelectSeq(quota_view, LAMBDA q : Normalized(q["farmer_id"].s) = f)

\* The rows of df_combined of a farmer, in table order.
CombinedRowsOf(f) ==
    SelectSeq(df_combined.rows, LAMBDA r : Normalized(r["farmer_id"].s) = f)

\* ---------------------------------------------------------------- claim C1

\* The quota view holds one row per farmer.
QuotaKeysDistinct ==
    \A i, j \in 1..Len(quota_view) :
        i # j => Normalized(quota_view[i]["farmer_id"].s)
                 # Normalized(quota_view[j]["farmer_id"].s)

\* C1 (as claimed): after a clean run on fully fetched tables, df_combined
\* has exactly one row for each normalised farmer_id of the quota view and
\* no other row: farmers only in traceability are absent, no farmer_id
\* occurs twice, and a farmer without traceability rows has "Unknown" in the
\* four categorical columns.  Stated for quota views that hold one row per
\* farmer, the case the join decides.
C1_OneRowPerQuotaFarmer ==
    (RanClean /\ NoFetchError /\ SchemaComplete /\ QuotaKeysDistinct) =>
        /\ {Normalized(df_combined.rows[i]["farmer_id"].s) :
               i \in 1..Len(df_combined.rows)} = SourceIds(quota_view)
        /\ \A i, j \in 1..Len(df_combined.rows) :
               i # j => Normalized(df_combined.rows[i]["farmer_id"].s)
                        # Normalized(df_combined.rows[j]["farmer_id"].s)
        /\ \A i \in 1..Len(df_combined.rows) :
               Normalized(df_combined.rows[i]["farmer_id"].s)
                   \notin SourceIds(traceability)
               => \A c \in Range(CatCols) : df_combined.rows[i][c] = Str(Unknown)

\* ---------------------------------------------------------------- claim C2

\* C2 (as claimed): after a clean run on fully fetched tables, on the join
\* path and on the empty-traceability path alike, every farmer_id of
\* df_combined is the trimmed, lower-cased form of a source farmer_id.
C2_IdsNormalizedOnEveryPath ==
    (RanClean /\ NoFetchError /\ SchemaComplete) =>
        \A i \in 1..Len(df_combined.rows) :
            /\ df_combined.rows[i]["farmer_id"].s
                   = Normalized(df_combined.rows[i]["farmer_id"].s)
            /\ df_combined.rows[i]["farmer_id"].s
                   \in SourceIds(quota_view) \cup SourceIds(traceability)

\* ---------------------------------------------------------------- claim C3

\* C3 (as claimed): in every row of the reconciled table quota_used_pct is
\* total_net_weight_kg / max_quota_kg when max_quota_kg > 0 and 0 when
\* max_quota_kg is 0, whatever the source row carried.
C3_PctIsRatio ==
    GapFilled =>
        \A i \in 1..Len(df_combined.rows) :
            LET r == df_combined.rows[i]
            IN  /\ r["max_quota_kg"].n > 0 =>
                      r["quota_used_pct"].n * r["max_quota_kg"].n
                          = r["total_net_weight_kg"].n
                /\ r["max_quota_kg"].n = 0 => r["quota_used_pct"].n = 0

\* C3 (amended): in every row of the reconciled table quota_used_pct is the
\* number the quota view delivered in quota_used_pct for that row, and 0
\* when that value is missing or unparsable or when no quota row matched
\* the farmer; it is not recomputed from the two weights.  The rows of a
\* farmer carry the values of the farmer's quota rows in source order.
C3_PctIsSourceValue ==
    (GapFilled /\ "farmer_id" \in df_combined.columns) =>
        \A f \in SourceIds(df_combined.rows) :
            LET out == CombinedRowsOf(f)
                src == QuotaRowsOf(f)
            IN  /\ \A i \in 1..Len(out) : out[i]["quota_used_pct"].k = "num"
                /\ IF src = <<>>
                   THEN \A i \in 1..Len(out) : out[i]["quota_used_pct"].n = 0
                   ELSE /\ Len(out) = Len(src)
                        /\ \A i \in 1..Len(out) :
                               out[i]["quota_used_pct"].n
                                   = ExpectedNumber(src[i]["quota_used_pct"])

\* C3 witness: a reconciled table holds a row whose max_quota_kg is 0 while
\* its quota_used_pct is the 3 of the source, beside a row of a farmer
\* without quota row whose quota_used_pct is 0.
C3_Witness ==
    /\ GapFilled
    /\ "farmer_id" \in df_combined.columns
    /\ \E i \in 1..Len(df_combined.rows) :
           /\ df_combined.rows[i]["max_quota_kg"] = Num(0)
           /\ df_combined.rows[i]["quota_used_pct"] = Num(3)
    /\ \E i \in 1..Len(df_combined.rows) :
           /\ QuotaRowsOf(Normalized(df_combined.rows[i]["farmer_id"].s)) = <<>>
           /\ df_combined.rows[i]["quota_used_pct"] = Num(0)

\* ---------------------------------------------------------------- claim C4

Underutilized ==
    <<"U", "n", "d", "e", "r", "u", "t", "i", "l", "i", "z", "e", "d">>

MeetingQuota ==
    <<"M", "e", "e", "t", "i", "n", "g", " ", "Q", "u", "o", "t", "a">>

ExceedingQuota ==
    <<"E", "x", "c", "e", "e", "d", "i", "n", "g", " ", "Q", "u", "o", "t", "a">>

\* The three-way partition of the claim: below 0.5, from 0.5 to below 1.0,
\* from 1.0 on.
StatusOfPct(pct) ==
    IF pct + pct < 1 THEN Underutilized
    ELSE IF pct < 1 THEN MeetingQuota
    ELSE ExceedingQuota

\* C4 (as claimed): in every row of the reconciled table quota_status is the
\* value the three-way partition gives for the row's quota_used_pct.
C4_StatusFollowsPct ==
    GapFilled =>
        \A i \in 1..Len(df_combined.rows) :
            df_combined.rows[i]["quota_status"].s
                = StatusOfPct(df_combined.rows[i]["quota_used_pct"].n)

\* C4 (amended): in every row of the reconciled table quota_status is the
\* text the quota view delivered in quota_status for that row, and the
\* literal "Unknown" when that value is missing, when the column is absent
\* or when no quota row matched the farmer; it is not derived from
\* quota_used_pct.
C4_StatusIsSourceValue ==
    (GapFilled /\ "farmer_id" \in df_combined.columns) =>
        \A f \in SourceIds(df_combined.rows) :
            LET out == CombinedRowsOf(f)
                src == QuotaRowsOf(f)
            IN  IF src = <<>>
                THEN \A i \in 1..Len(out) : out[i]["quota_status"] = Str(Unknown)
                ELSE /\ Len(out) = Len(src)
                     /\ \A i \in 1..Len(out) :
                            out[i]["quota_status"] =
                                IF "quota_status" \in DOMAIN src[i]
                                THEN Str(ExpectedText(src[i]["quota_status"]))
                                ELSE Str(Unknown)

\* C4 witness: a reconciled table holds a row with quota_used_pct 1 and
\* status "OK" as delivered, and a row with quota_used_pct 3 whose missing
\* status became "Unknown".
C4_Witness ==
    /\ GapFilled
    /\ \E i \in 1..Len(df_combined.rows) :
           /\ df_combined.rows[i]["quota_used_pct"] = Num(1)
           /\ df_combined.rows[i]["quota_status"] = Str(OK)
    /\ \E i \in 1..Len(df_combined.rows) :
           /\ df_combined.rows[i]["quota_used_pct"] = Num(3)
           /\ df_combined.rows[i]["quota_status"] = Str(Unknown)

\* ---------------------------------------------------------------- claim C5

\* The non-missing values the fetched traceability frame holds in column c
\* for farmer f.
TraceValuesOf(f, c) ==
    {df_traceability.rows[i][c].s :
        i \in {j \in 1..Len(df_traceability.rows) :
                 /\ c \in df_traceability.columns
                 /\ Normalized(df_traceability.rows[j]["farmer_id"].s) = f
                 /\ df_traceability.rows[j][c].k = "str"}}

\* C5: in every reconciled table no field is missing.  The three numeric
\* columns hold numbers, 0 where the quota view gave no parsable value or no
\* quota row matched; quota_status and the four categorical columns hold
\* text, "Unknown" exactly where the source gave no value (the farmer has no
\* quota row, no traceability value, or traceability is empty) and a value
\* of the source otherwise.
C5_NoFieldMissing ==
    GapFilled =>
        /\ \A i \in 1..Len(df_combined.rows) :
               /\ \A c \in Range(NumCols) : df_combined.rows[i][c].k = "num"
               /\ Range(FillCols) \subseteq DOMAIN df_combined.rows[i]
               /\ \A c \in Range(FillCols) : df_combined.rows[i][c].k = "str"
        /\ "farmer_id" \in df_combined.columns =>
               \A f \in SourceIds(df_combined.rows) :
                   LET out == CombinedRowsOf(f)
                       src == QuotaRowsOf(f)
                   IN  /\ \A i \in 1..Len(out), c \in Range(NumCols) :
                              out[i][c].n =
                                  IF src = <<>> THEN 0 ELSE ExpectedNumber(src[i][c])
                       /\ \A i \in 1..Len(out) :
                              (out[i]["quota_status"].s = Unknown) <=>
                                  \/ src = <<>>
                                  \/ "quota_status" \notin DOMAIN src[i]
                                  \/ src[i]["quota_status"].k # "str"
                       /\ \A i \in 1..Len(out), c \in Range(CatCols) :
                              IF TraceValuesOf(f, c) = {}
                              THEN out[i][c].s = Unknown
                              ELSE out[i][c].s \in TraceValuesOf(f, c)

\* C5 witness: traceability is empty and the reconciled table holds a row
\* whose unparsable max_quota_kg and missing total_net_weight_kg became 0,
\* whose missing status and whose exporter became "Unknown".
C5_Witness ==
    /\ GapFilled
    /\ IsEmpty(df_traceability)
    /\ \E i \in 1..Len(df_combined.rows) :
           /\ quota_view[i]["max_quota_kg"] = Str(<<"x">>)
           /\ quota_view[i]["total_net_weight_kg"] = Null
           /\ df_combined.rows[i]["max_quota_kg"] = Num(0)
           /\ df_combined.rows[i]["total_net_weight_kg"] = Num(0)
           /\ df_combined.rows[i]["quota_status"] = Str(Unknown)
           /\ df_combined.rows[i]["exporter"] = Str(Unknown)

\* ---------------------------------------------------------------- claim C6

\* The requests made for a table, in order.
RequestsOf(t) == SelectSeq(requests, LAMBDA q : q.table = t)

\* A request for the table answered None or raised.
Failed(t) ==
    \E i \in 1..Len(RequestsOf(t)) : RequestsOf(t)[i].answer \in {"none", "raise"}

\* C6 (as claimed): a call none of whose requests failed returns every row
\* of the table once, in source order, having asked for the windows
\* [k * page_size, (k + 1) * page_size - 1], k = 0, 1, ..., up to the first
\* empty one; also when the store answers a window with fewer rows than
\* page_size.
C6_ReturnsEveryRow ==
    \A t \in DOMAIN returned :
        ~Failed(t) =>
            /\ returned[t] = DataFrame(RemoteRows(t, remote_size[t]))
            /\ \A i \in 1..Len(RequestsOf(t)) :
                   /\ RequestsOf(t)[i].range =
                          <<(i - 1) * page_size, i * page_size - 1>>
                   /\ (RequestsOf(t)[i].answer = "empty") <=> (i = Len(RequestsOf(t)))

\* ---------------------------------------------------------------- claim C7

\* C7: a call with a request that answered None or raised made no request
\* after it, reported an error and returned the empty frame, whatever the
\* windows before it delivered.  The other call is unaffected: a call
\* without a failed request starts at offset 0, reports no error and returns
\* rows of its own table, some whenever the table holds any.
C7_FailureGivesEmptyFrame ==
    \A t \in DOMAIN returned :
        LET rq == RequestsOf(t)
        IN  IF Failed(t)
            THEN /\ returned[t] = EmptyFrame
                 /\ t \in errors
                 /\ rq[Len(rq)].answer \in {"none", "raise"}
                 /\ \A i \in 1..(Len(rq) - 1) : rq[i].answer = "rows"
            ELSE /\ t \notin errors
                 /\ rq[1].range[1] = 0
                 /\ (returned[t].rows # <<>>) <=> (remote_size[t] > 0)
                 /\ Range(returned[t].rows)
                        \subseteq Range(RemoteRows(t, remote_size[t]))

\* C7 witness: the quota call got a window of rows and then None and
\* returned the empty frame, and the traceability call after it returned
\* rows.
C7_Witness ==
    /\ calls = <<>>
    /\ Len(RequestsOf(quota_view_name)) >= 2
    /\ RequestsOf(quota_view_name)[1].answer = "rows"
    /\ RequestsOf(quota_view_name)[Len(RequestsOf(quota_view_name))].answer = "none"
    /\ returned[quota_view_name] = EmptyFrame
    /\ ~Failed(traceability_table_name)
    /\ returned[traceability_table_name].rows # <<>>

\* ---------------------------------------------------------------- claim C8

\* The filter block ran on a reconciled table.
FiltersRan ==
    /\ pc \in {"filtered", "done"}
    /\ GapFilled
    /\ session_state # NoWidgets

\* p occurs in s as a run of consecutive characters.
IsSubstring(p, s) ==
    \E i \in 1..(Len(s) + 1) :
        i + Len(p) - 1 <= Len(s) /\ SubSeq(s, i, i + Len(p) - 1) = p

\* The six predicates of the claim for one row, under the selections in
\* force: four memberships, the inclusive range, and the farmer id holding
\* the lower-cased search text.
SatisfiesAll(r) ==
    /\ r["exporter"].s \in Range(selected_exporters)
    /\ r["quota_status"].s \in Range(selected_quota_statuses)
    /\ r["cooperative_name"].s \in Range(selected_cooperatives)
    /\ r["certification"].s \in Range(selected_certifications)
    /\ min_quota_pct <= r["quota_used_pct"].n
    /\ r["quota_used_pct"].n <= max_quota_pct
    /\ \/ farmer_id_search = <<>>
       \/ IsSubstring(farmer_id_search, StrLower(r["farmer_id"].s))

\* C8 (as claimed): whenever the filter block ran, filtered_df is exactly
\* the rows of df_combined that satisfy all six predicates, unaltered and in
\* table order.
C8_FilteredIsConjunction ==
    (FiltersRan /\ SchemaComplete) =>
        /\ filtered_df.columns = df_combined.columns
        /\ filtered_df.rows = SelectSeq(df_combined.rows, SatisfiesAll)

\* ---------------------------------------------------------------- claim C9

\* A multiselect returned all of its options, or only 'All'.
AllSelected(col) ==
    \/ session_state[col] = Options(df_combined, col)
    \/ session_state[col] = <<All>>

\* C9 (as claimed): when every multiselect holds all of its options or only
\* 'All', the search box is empty and the slider spans the data, filtered_df
\* equals df_combined, whatever values the categorical columns hold.
C9_AllSelectedKeepsEveryRow ==
    ( /\ FiltersRan
      /\ SchemaComplete
      /\ AllSelected("exporter")
      /\ AllSelected("quota_status")
      /\ AllSelected("cooperative_name")
      /\ AllSelected("certification")
      /\ session_state["farmer_id"] = <<>>
      /\ session_state["quota_used_pct"] =
             <<SetMin(PctValues(df_combined)), SetMax(PctValues(df_combined))>> )
    => filtered_df = df_combined

\* --------------------------------------------------------------- claim C10

\* The selected columns the store did not deliver.
AbsentColumns ==
    (IF quota_view = <<>> THEN {} ELSE QuotaCols \ DOMAIN quota_view[1])
    \cup (IF traceability = <<>> THEN {} ELSE TraceCols \ DOMAIN traceability[1])

\* The missing sentinel of a column.
Sentinel(c) == IF c \in Range(NumCols) THEN Num(0) ELSE Str(Unknown)

\* C10 (as claimed): after a run on fully fetched tables with a non-empty
\* quota view, an absent farmer_id column stops the pipeline with the
\* diagnostic, and an absent non-key column does not: the reconciled table
\* exists with that column filled by its sentinel and the filters ran on it.
C10_AbsentColumnGetsSentinel ==
    (pc = "done" /\ supabase /\ NoFetchError /\ quota_view # <<>>) =>
        IF "farmer_id" \in AbsentColumns
        THEN ProcessingError \in notices
        ELSE /\ ProcessingError \notin notices
             /\ FiltersRan
             /\ \A i \in 1..Len(df_combined.rows), c \in AbsentColumns :
                    df_combined.rows[i][c] = Sentinel(c)

\* ------------------------------------------------------------------- C11

\* Sum of a sequence of numbers, left to right.
RECURSIVE SumSeq(_)
SumSeq(seq) == IF seq = <<>> THEN 0 ELSE Head(seq) + SumSeq(Tail(seq))

\* The numbers of column col over the rows of the filtered table.
FilteredNumbers(col) ==
    [i \in 1..Len(filtered_df.rows) |-> filtered_df.rows[i][col].n]

\* The distinct farmer_id values of the filtered table.
FilteredFarmers ==
    {r["farmer_id"] : r \in {q \in Range(filtered_df.rows) :
                                 "farmer_id" \in DOMAIN q}}

\* C11: the key metrics block always completes; once it has run on an empty
\* filtered table, whatever emptied it, total_farmers, the average
\* quota_used_pct, total max_quota_kg and total net weight are all 0; on a
\* non-empty filtered table total_farmers is the number of distinct
\* farmer_id values and the two totals are the column sums over its rows.
C11_EmptyGivesZeroMetrics ==
    /\ pc = "filtered" => ENABLED Render
    /\ pc = "done" /\ IsEmpty(filtered_df) =>
           /\ total_farmers = 0
           /\ average_quota_used_pct.num = 0
           /\ average_quota_used_pct.den # 0
           /\ total_max_quota_kg = 0
           /\ total_net_weight_kg = 0
    /\ pc = "done" /\ ~IsEmpty(filtered_df) =>
           /\ total_farmers = Cardinality(FilteredFarmers)
           /\ total_max_quota_kg = SumSeq(FilteredNumbers("max_quota_kg"))
           /\ total_net_weight_kg = SumSeq(FilteredNumbers("total_net_weight_kg"))

\* The metrics were computed on a table the filters emptied: the fetch and
\* the processing succeeded, rows were reconciled, and none matched.
C11_Witness ==
    /\ pc = "done"
    /\ supabase
    /\ NoFetchError
    /\ ProcessingError \notin notices
    /\ ~IsEmpty(df_combined)
    /\ IsEmpty(filtered_df)
    /\ total_farmers = 0
    /\ average_quota_used_pct = Zero

\* ------------------------------------------------------------------- C12

\* The join branch has run to its end: both frames held rows and the
\* aggregated traceability was merged.
Aggregated ==
    /\ pc = "reconciled"
    /\ ~IsEmpty(df_quota)
    /\ ~IsEmpty(df_traceability)

\* The values of column c in the traceability rows of farmer f, in fetched
\* row order.
GroupValues(f, c) ==
    LET mine == SelectSeq(df_traceability.rows,
                          LAMBDA r : r["farmer_id"].s = f)
    IN  [i \in 1..Len(mine) |-> mine[i][c]]

\* The most frequent non-missing value of x, the first encountered one among
\* the values tied for most frequent; missing when x has no value.
FirstMostFrequent(x) ==
    LET P == {i \in 1..Len(x) : ~IsNull(x[i])}
        Count(v) == Cardinality({i \in P : x[i] = v})
        Top(i) == \A j \in P : Count(x[j]) <= Count(x[i])
    IN  IF P = {} THEN Null
        ELSE x[CHOOSE i \in P : Top(i) /\ \A j \in P : Top(j) => i <= j]

\* C12: after traceability aggregation, for every farmer and each of
\* export_lot, exporter, cooperative_name and certification, the value kept
\* is the most frequent non-missing value among the farmer's traceability
\* rows, the first one in fetched row order when several tie, and missing
\* when the farmer has no value for the column.
C12_ModeTiesKeepFirst ==
    Aggregated =>
        \A i \in 1..Len(df_combined.rows), c \in Range(CatCols) :
            df_combined.rows[i][c] =
                FirstMostFrequent(GroupValues(df_combined.rows[i]["farmer_id"].s, c))

\* ------------------------------------------------------------------- C13

\* The filters were applied without error to a non-empty reconciled table
\* and no row matched.
FiltersMatchedNothing ==
    /\ session_state # NoWidgets
    /\ ProcessingError \notin notices
    /\ ~IsEmpty(df_combined)
    /\ IsEmpty(filtered_df)

\* C13: once the script has rendered, the notice "No data matches the
\* selected filters." is shown exactly when the filters were applied without
\* error to a non-empty reconciled table and matched no row; never after a
\* fetch failure, an empty source, or an exception raised once the
\* reconciled table was populated.
C13_NoMatchNoticeOnlyForFilters ==
    pc = "done" => (NoMatchWarning \in notices <=> FiltersMatchedNothing)

====
